---- MODULE Spec2Model ----
(***************************************************************************)
(* Model of the portfolio analytics engine of pocketGenius:                *)
(* backend/services/investment_service.py (class InvestmentAnalyzer), the  *)
(* /analyze-portfolio and /portfolio-sector-breakdown endpoints of         *)
(* backend/main.py, and the cache the requests share.                      *)
(*                                                                         *)
(* Numbers.  The code computes with Python floats; the model computes with *)
(* exact rationals <<n, d>> (d > 0, lowest terms).  <<0, 0>> stands for a  *)
(* raised arithmetic exception (ZeroDivisionError, ValueError) and is      *)
(* propagated by every operation, as an exception leaves the expression    *)
(* it is raised in; <<1, 0>> stands for NaN, which arithmetic propagates   *)
(* silently.  The volatility is a square root, so it and the Sharpe        *)
(* ratio computed from it are reals of the form s * sqrt(q): such a real   *)
(* x is held as its signed square sgn(x) * x^2, a rational; the map is     *)
(* strictly increasing, so comparisons of reals are comparisons of signed  *)
(* squares.                                                                *)
(***************************************************************************)
EXTENDS Integers, Sequences, FiniteSets, TLC

VARIABLES fn, args, ret, phase, portfolio, results, response, world, breakdown,
          cache, pc, local, served, fetches

calcVars == <<fn, args, ret>>

serviceVars == <<phase, portfolio, results, response, world, breakdown>>

cacheVars == <<cache, pc, local, served, fetches>>

vars == <<fn, args, ret, phase, portfolio, results, response, world, breakdown,
          cache, pc, local, served, fetches>>

----------------------------------------------------------------------------
(* Bounds *)

MaxItems == 2

MaxDetails == 3

MaxRequests == 2

MaxFetches == 2

----------------------------------------------------------------------------
(* Exact arithmetic *)

Abs(n) == IF n < 0 THEN -n ELSE n

Sgn(n) == IF n < 0 THEN -1 ELSE IF n = 0 THEN 0 ELSE 1

RECURSIVE GCD(_, _)
GCD(a, b) == IF b = 0 THEN a ELSE GCD(b, a % b)

\* A raised arithmetic exception (ZeroDivisionError, ValueError).
Raise == <<0, 0>>

\* float("nan"): produced by numpy, never by Python's own float division.
NaN == <<1, 0>>

Raised(x) == x = Raise

IsNaN(x) == x = NaN

Rat(n, d) ==
    LET g == GCD(Abs(n), Abs(d))
        s == IF d < 0 THEN -1 ELSE 1
    IN  <<(s * n) \div g, (s * d) \div g>>

RatOf(n) == <<n, 1>>

Zero == RatOf(0)

\* (n1 * n2) / (d1 * d2) in lowest terms, cancelling before multiplying.
Frac(n1, n2, d1, d2) ==
    LET g1 == GCD(Abs(n1), Abs(d2))
        g2 == GCD(Abs(n2), Abs(d1))
    IN  Rat((n1 \div g1) * (n2 \div g2), (d1 \div g2) * (d2 \div g1))

RAdd(a, b) ==
    IF Raised(a) \/ Raised(b) THEN Raise
    ELSE IF IsNaN(a) \/ IsNaN(b) THEN NaN
    ELSE Rat(a[1] * b[2] + b[1] * a[2], a[2] * b[2])

RSub(a, b) ==
    IF Raised(a) \/ Raised(b) THEN Raise
    ELSE IF IsNaN(a) \/ IsNaN(b) THEN NaN
    ELSE Rat(a[1] * b[2] - b[1] * a[2], a[2] * b[2])

RMul(a, b) ==
    IF Raised(a) \/ Raised(b) THEN Raise
    ELSE IF IsNaN(a) \/ IsNaN(b) THEN NaN
    ELSE Frac(a[1], b[1], a[2], b[2])

\* Python float division: a zero divisor raises ZeroDivisionError.
RDiv(a, b) ==
    IF Raised(a) \/ Raised(b) \/ b = Zero THEN Raise
    ELSE IF IsNaN(a) \/ IsNaN(b) THEN NaN
    ELSE Frac(a[1], b[2], a[2], b[1])

\* Comparisons: every comparison with NaN is false.
RLt(a, b) == a[2] # 0 /\ b[2] # 0 /\ a[1] * b[2] < b[1] * a[2]

RLe(a, b) == a[2] # 0 /\ b[2] # 0 /\ a[1] * b[2] <= b[1] * a[2]

\* Reals s * sqrt(q), held as signed squares.
RealOfRat(r) == IF r[2] = 0 THEN r ELSE <<Sgn(r[1]) * r[1] * r[1], r[2] * r[2]>>

\* math.sqrt: ValueError on a negative argument, NaN on NaN.
SqrtOf(q) == IF Raised(q) \/ (q[2] # 0 /\ q[1] < 0) THEN Raise ELSE q

RealMul(x, y) ==
    IF Raised(x) \/ Raised(y) THEN Raise
    ELSE IF IsNaN(x) \/ IsNaN(y) THEN NaN
    ELSE Frac(Sgn(y[1]) * x[1], Abs(y[1]), x[2], y[2])

RealDiv(x, y) ==
    IF Raised(x) \/ Raised(y) \/ y = Zero THEN Raise
    ELSE IF IsNaN(x) \/ IsNaN(y) THEN NaN
    ELSE Frac(Sgn(y[1]) * x[1], y[2], x[2], Abs(y[1]))

RealGt(x, y) == RLt(y, x)

----------------------------------------------------------------------------
(* Python values *)

\* None, among strings (sector labels).
PyNone == "<None>"

\* Truthiness of a str-or-None value, as tested by `x or default`.
Falsy(x) == x = PyNone \/ x = ""

\* dict.get(key, default) on a dict held as a function.
DictGet(d, k, default) == IF k \in DOMAIN d THEN d[k] ELSE default

\* Mutant: the symbol is taken as written.
SymbolAsWritten(s) == s

\* str.upper() on the ticker symbols of the model.
Upper(s) ==
    CASE s = "aapl" -> "AAPL"
      [] s = "Aapl" -> "AAPL"
      [] s = "msft" -> "MSFT"
      [] OTHER -> s

\* A dict that is iterated (insertion order matters) is a sequence of
\* [key, val] records with distinct keys.
ODKeys(od) == {od[i].key : i \in 1..Len(od)}

ODIndex(od, k) == CHOOSE i \in 1..Len(od) : od[i].key = k

ODGet(od, k) == od[ODIndex(od, k)].val

\* d.setdefault(k, v)
ODSetDefault(od, k, v) ==
    IF k \in ODKeys(od) THEN od ELSE Append(od, [key |-> k, val |-> v])

\* d[k] = v
ODSet(od, k, v) ==
    IF k \in ODKeys(od)
    THEN [od EXCEPT ![ODIndex(od, k)] = [key |-> k, val |-> v]]
    ELSE Append(od, [key |-> k, val |-> v])

----------------------------------------------------------------------------
(* Valuation: _calculate_values, _calculate_roi *)

\* Mutant: the snapshot is read with the symbol as the caller wrote it.
PriceLookupAsWritten(today_data, symbol) == DictGet(today_data, symbol, Zero)

\* today_data.get(item.symbol.upper(), 0.0)
PriceLookup(today_data, symbol) == DictGet(today_data, Upper(symbol), Zero)

RECURSIVE ValuesLoop(_, _, _, _, _)
ValuesLoop(items, today_data, i, total_investment, current_value) ==
    IF i > Len(items) THEN <<total_investment, current_value>>
    ELSE LET item == items[i]
             invest == RMul(item.purchase_price, item.quantity)
             cur_price == PriceLookup(today_data, item.symbol)
         IN  ValuesLoop(items, today_data, i + 1,
                        RAdd(total_investment, invest),
                        RAdd(current_value, RMul(cur_price, item.quantity)))

_calculate_values(items, today_data) == ValuesLoop(items, today_data, 1, Zero, Zero)

\* Mutant: only a negative investment is guarded.
RoiGuardingNegativeOnly(total_investment, current_value) ==
    IF RLt(total_investment, Zero) THEN Zero
    ELSE RMul(RDiv(RSub(current_value, total_investment), total_investment), RatOf(100))

_calculate_roi(total_investment, current_value) ==
    IF RLe(total_investment, Zero) THEN Zero
    ELSE RMul(RDiv(RSub(current_value, total_investment), total_investment), RatOf(100))

----------------------------------------------------------------------------
(* Risk-adjusted return: _calculate_sharpe_ratio.  risk_free_rate is the   *)
(* analyzer's self.risk_free_rate (a percent); volatility is a real.       *)

\* Mutant: the risk-free rate is left in percent.
SharpeWithPercentRate(roi_percent, volatility, risk_free_rate) ==
    IF volatility = Zero THEN Zero
    ELSE RealDiv(RealOfRat(RSub(RDiv(roi_percent, RatOf(100)), risk_free_rate)), volatility)

_calculate_sharpe_ratio(roi_percent, volatility, risk_free_rate) ==
    IF volatility = Zero THEN Zero
    ELSE LET roi_decimal == RDiv(roi_percent, RatOf(100))
             risk_free_decimal == RDiv(risk_free_rate, RatOf(100))
         IN  RealDiv(RealOfRat(RSub(roi_decimal, risk_free_decimal)), volatility)

----------------------------------------------------------------------------
(* Recommendation engine: _generate_symbol_recommendation *)

LargeLossesText == "Large losses. Evaluate if you should cut or hold for possible rebound."

MildLossesText == "Mild losses. Possibly hold or rebalance."

LowRoiText == "Low ROI so far. Could hold or look for better returns."

DecentGainsText == "Decent gains. Consider partial profit or hold if bullish."

StrongGainsText == "Strong gains! Monitor valuation and risk."

Tagged(symbol, text) == "[" \o symbol \o "] " \o text

\* Mutant: the severe-loss tier includes its boundary.
RecommendationSevereAtBoundary(symbol, roi) ==
    IF RLe(roi, RatOf(-20)) THEN Tagged(symbol, LargeLossesText)
    ELSE IF RLt(roi, Zero) THEN Tagged(symbol, MildLossesText)
    ELSE IF RLt(roi, RatOf(5)) THEN Tagged(symbol, LowRoiText)
    ELSE IF RLt(roi, RatOf(20)) THEN Tagged(symbol, DecentGainsText)
    ELSE Tagged(symbol, StrongGainsText)

_generate_symbol_recommendation(symbol, roi) ==
    IF RLt(roi, RatOf(-20)) THEN Tagged(symbol, LargeLossesText)
    ELSE IF RLt(roi, Zero) THEN Tagged(symbol, MildLossesText)
    ELSE IF RLe(Zero, roi) /\ RLt(roi, RatOf(5)) THEN Tagged(symbol, LowRoiText)
    ELSE IF RLe(RatOf(5), roi) /\ RLt(roi, RatOf(20)) THEN Tagged(symbol, DecentGainsText)
    ELSE Tagged(symbol, StrongGainsText)

----------------------------------------------------------------------------
(* Diversification: _calculate_sector_breakdown.  item_details is a list   *)
(* of dicts of which "current_value" and "sector" are read.                *)

RECURSIVE SectorLoop(_, _, _, _)
SectorLoop(item_details, i, sector_map, total_value) ==
    IF i > Len(item_details)
    THEN [sector_map |-> sector_map, total_value |-> total_value]
    ELSE LET detail == item_details[i]
             val == detail.current_value
             sec == IF Falsy(detail.sector) THEN "Unknown" ELSE detail.sector
             withKey == ODSetDefault(sector_map, sec, Zero)
             added == ODSet(withKey, sec, RAdd(ODGet(withKey, sec), val))
         IN  SectorLoop(item_details, i + 1, added, RAdd(total_value, val))

\* Mutant: the share is left a fraction of 1.
SectorPctAsFraction(val, total_value) ==
    IF RLt(Zero, total_value) THEN RDiv(val, total_value) ELSE Zero

\* Mutant: the share is computed without the guard on the grand total.
SectorPctUnguarded(val, total_value) == RMul(RDiv(val, total_value), RatOf(100))

SectorPct(val, total_value) ==
    IF RLt(Zero, total_value) THEN RMul(RDiv(val, total_value), RatOf(100)) ELSE Zero

\* Mutant: no entries at all when the grand total is not positive.
SectorBreakdownEmptyWithoutValue(item_details) ==
    LET acc == SectorLoop(item_details, 1, <<>>, Zero)
        sector_map == acc.sector_map
    IN  IF Len(sector_map) = 0 \/ ~RLt(Zero, acc.total_value) THEN <<>>
        ELSE [i \in 1..Len(sector_map) |->
                [key |-> sector_map[i].key,
                 val |-> SectorPct(sector_map[i].val, acc.total_value)]]

_calculate_sector_breakdown(item_details) ==
    LET acc == SectorLoop(item_details, 1, <<>>, Zero)
        sector_map == acc.sector_map
    IN  IF Len(sector_map) = 0 THEN <<>>
        ELSE [i \in 1..Len(sector_map) |->
                [key |-> sector_map[i].key,
                 val |-> SectorPct(sector_map[i].val, acc.total_value)]]

----------------------------------------------------------------------------
(* Recommendation engine: _generate_local_advice.  A sentence is a record  *)
(* of its text template and the values formatted into it; the advice is    *)
(* the sequence of the sentences joined, in order.                         *)

NegativeRoiText == "Overall negative ROI. Consider rebalancing or diversifying."

ModestRoiText == "Modest ROI. You might explore higher-yield opportunities if risk tolerance allows."

SolidRoiText == "Solid ROI! Keep monitoring market trends."

ConcentrationText == "You have a high concentration in {sec} ({pct:.1f}%). Consider diversifying."

VolatilityText == "Portfolio volatility is relatively high ({volatility:.2f}), watch out for big swings."

NoAdviceText == "No specific local advice."

Sentence(text, sec, num) == [text |-> text, sec |-> sec, num |-> num]

Plain(text) == Sentence(text, "", Zero)

RoiSentence(roi_percent) ==
    IF RLt(roi_percent, Zero) THEN Plain(NegativeRoiText)
    ELSE IF RLt(roi_percent, RatOf(5)) THEN Plain(ModestRoiText)
    ELSE Plain(SolidRoiText)

\* Mutant: a sector at exactly 50 counts as concentrated.
HighConcentrationInclusive(pct) == RLe(RatOf(50), pct)

HighConcentration(pct) == RLt(RatOf(50), pct)

ConcentrationSentences(sector_breakdown) ==
    LET over == SelectSeq(sector_breakdown, LAMBDA e : HighConcentration(e.val))
    IN  IF Len(over) = 0 THEN <<>>
        ELSE [i \in 1..Len(over) |-> Sentence(ConcentrationText, over[i].key, over[i].val)]

HighVolatility(volatility) == RealGt(volatility, RealOfRat(Rat(3, 10)))

VolatilitySentences(volatility) ==
    IF HighVolatility(volatility) THEN <<Sentence(VolatilityText, "", volatility)>> ELSE <<>>

\* " ".join(advice) or "No specific local advice."
JoinOrDefault(advice) == IF advice = <<>> THEN <<Plain(NoAdviceText)>> ELSE advice

_generate_local_advice(roi_percent, volatility, sector_breakdown) ==
    JoinOrDefault(<<RoiSentence(roi_percent)>>
                  \o ConcentrationSentences(sector_breakdown)
                  \o VolatilitySentences(volatility))

----------------------------------------------------------------------------
(* Price history.  The DataFrame of yf.download is one of                  *)
(*   [shape |-> "empty"]                       pd.DataFrame(), no rows     *)
(*   [shape |-> "single", close |-> series]    one ticker: hist["Close"]   *)
(*                                             is a Series                 *)
(*   [shape |-> "multi", close |-> [column -> series]]   several tickers   *)
(*   [shape |-> "noclose"]                     rows, but no "Close" column *)
(* A series is the sequence of daily closes, NaN where there is none; the  *)
(* series of one frame have the same length.                               *)

EmptyFrame == [shape |-> "empty"]

Last(seq) == seq[Len(seq)]

\* Series.dropna()
DropNa(series) == SelectSeq(series, LAMBDA v : ~IsNaN(v))

RECURSIVE Sum(_)
Sum(seq) == IF Len(seq) = 0 THEN Zero ELSE RAdd(Head(seq), Sum(Tail(seq)))

RECURSIVE SetToSeq(_)
SetToSeq(S) ==
    IF S = {} THEN <<>> ELSE LET x == CHOOSE x \in S : TRUE IN <<x>> \o SetToSeq(S \ {x})

\* annual_portfolio_var = daily_portfolio_var * 252
TradingDays == 252

\* lines 192-203: the close prices as a table, column -> series
CloseTable(items, historical_data) ==
    IF historical_data.shape = "single"
    THEN LET col_name == IF Len(items) > 0 THEN Upper(items[1].symbol) ELSE "SINGLE"
         IN  [c \in {col_name} |-> historical_data.close]
    ELSE historical_data.close

\* close_df.dropna(axis=1, how="all")
DropEmptyColumns(close_df) ==
    [c \in {c \in DOMAIN close_df : Len(DropNa(close_df[c])) > 0} |-> close_df[c]]

\* Series.pct_change(), without its first (undefined) row
PctChange(series) ==
    IF Len(series) < 2 THEN <<>>
    ELSE [t \in 1..(Len(series) - 1) |-> RDiv(RSub(series[t + 1], series[t]), series[t])]

\* .dropna(how='all'): the rows of the returns in which some column has a value
KeptRows(daily_ret) ==
    {t \in 1..Len(daily_ret[CHOOSE c \in DOMAIN daily_ret : TRUE]) :
        \E c \in DOMAIN daily_ret : ~IsNaN(daily_ret[c][t])}

\* DataFrame.cov(): sample covariance (ddof = 1) over the rows where both
\* columns have a value; NaN with fewer than two such rows.
Cov(daily_ret, rows, c1, c2) ==
    LET m == Len(daily_ret[c1])
        used == {t \in rows : ~IsNaN(daily_ret[c1][t]) /\ ~IsNaN(daily_ret[c2][t])}
        n == Cardinality(used)
        Over(col) == [t \in 1..m |-> IF t \in used THEN daily_ret[col][t] ELSE Zero]
        mean1 == RDiv(Sum(Over(c1)), RatOf(n))
        mean2 == RDiv(Sum(Over(c2)), RatOf(n))
        products == [t \in 1..m |->
                        IF t \in used
                        THEN RMul(RSub(daily_ret[c1][t], mean1), RSub(daily_ret[c2][t], mean2))
                        ELSE Zero]
    IN  IF n < 2 THEN NaN ELSE RDiv(Sum(products), RatOf(n - 1))

\* lines 217-224: the last holding of a symbol overwrites its map entry,
\* every holding adds to total_val
RECURSIVE PositionLoop(_, _, _, _, _)
PositionLoop(items, last_prices, i, symbol_value_map, total_val) ==
    IF i > Len(items)
    THEN [symbol_value_map |-> symbol_value_map, total_val |-> total_val]
    ELSE LET up == Upper(items[i].symbol)
             lp == IF up \in DOMAIN last_prices THEN last_prices[up] ELSE Zero
             pos_val == RMul(lp, items[i].quantity)
         IN  PositionLoop(items, last_prices, i + 1,
                          [k \in DOMAIN symbol_value_map \cup {up} |->
                              IF k = up THEN pos_val ELSE symbol_value_map[k]],
                          RAdd(total_val, pos_val))

\* lines 226-231
Weight(symbol_value_map, total_val, col) ==
    IF RLt(Zero, total_val)
    THEN RDiv(DictGet(symbol_value_map, Upper(col), Zero), total_val)
    ELSE Zero

\* np.dot(w_array, np.dot(cov_matrix.values, w_array))
QuadraticForm(cols, w, cov) ==
    Sum([i \in 1..Len(cols) |->
            RMul(w[cols[i]],
                 Sum([j \in 1..Len(cols) |-> RMul(cov[<<cols[i], cols[j]>>], w[cols[j]])]))])

\* lines 214-232: the weight of every column of the table
Weights(items, close_df) ==
    LET last_prices == [c \in DOMAIN close_df |-> Last(close_df[c])]
        pos == PositionLoop(items, last_prices, 1, <<>>, Zero)
    IN  [c \in DOMAIN close_df |-> Weight(pos.symbol_value_map, pos.total_val, c)]

\* lines 205-237, once the close table is there
VolatilityOfTable(items, table) ==
    LET close_df == DropEmptyColumns(table)
    IN  IF DOMAIN close_df = {} THEN Zero
        ELSE LET daily_ret == [c \in DOMAIN close_df |-> PctChange(close_df[c])]
                 rows == KeptRows(daily_ret)
             IN  IF rows = {} THEN Zero
                 ELSE LET cols == SetToSeq(DOMAIN close_df)
                          cov == [pair \in (DOMAIN close_df) \X (DOMAIN close_df) |->
                                    Cov(daily_ret, rows, pair[1], pair[2])]
                          w == Weights(items, close_df)
                          daily_portfolio_var == QuadraticForm(cols, w, cov)
                          annual_portfolio_var == RMul(daily_portfolio_var, RatOf(TradingDays))
                      IN  SqrtOf(annual_portfolio_var)

\* The volatility, a real (held as its signed square).
_calculate_portfolio_volatility(items, historical_data) ==
    IF historical_data.shape = "empty" THEN Zero
    ELSE IF historical_data.shape = "noclose" THEN Zero
    ELSE VolatilityOfTable(items, CloseTable(items, historical_data))

----------------------------------------------------------------------------
(* Market data: _fetch_market_data.  symbols is the list the caller made   *)
(* of the set of upper-cased symbols; cached_today and cached_hist are     *)
(* what the cache answers for the two keys, <<>> for None (absent, expired *)
(* or unreadable) and <<v>> for a value; download is what yf.download      *)
(* does: [kind |-> "raise"] or [kind |-> "ok", hist |-> frame].            *)

RECURSIVE Join(_)
Join(symbols) ==
    IF Len(symbols) = 0 THEN ""
    ELSE IF Len(symbols) = 1 THEN symbols[1]
    ELSE symbols[1] \o "_" \o Join(Tail(symbols))

CacheKeyToday(symbols) == "today_data_" \o Join(symbols)

CacheKeyHist(symbols) == "historical_data_" \o Join(symbols)

EmptyDict == <<>>

Range(seq) == {seq[i] : i \in 1..Len(seq)}

\* lines 138-153: whether computing today's prices from the frame raises
\* (a missing "Close" for one ticker is a KeyError; a Series where a table
\* is expected has no columns)
TodayRaises(symbols, hist) ==
    IF Len(symbols) = 1 THEN hist.shape \in {"noclose", "multi"}
    ELSE hist.shape = "single"

\* lines 138-153
TodayFromHist(symbols, hist) ==
    IF Len(symbols) = 1
    THEN LET last_close == IF hist.shape = "empty" THEN Zero ELSE Last(hist.close)
         IN  [sym \in {symbols[1]} |-> last_close]
    ELSE LET close_df == IF hist.shape = "multi" THEN hist.close ELSE EmptyDict
         IN  [sym \in Range(symbols) |->
                IF sym \in DOMAIN close_df /\ Len(DropNa(close_df[sym])) > 0
                THEN Last(DropNa(close_df[sym]))
                ELSE Zero]

Fetched(today_data, historical_data, cache_reads, requested, failed, cache_writes) ==
    [today_data |-> today_data, historical_data |-> historical_data,
     cache_reads |-> cache_reads, requested |-> requested, failed |-> failed,
     cache_writes |-> cache_writes]

\* Mutant: no early return for an empty symbol list.
FetchWithoutEmptyGuard(symbols, cached_today, cached_hist, download) ==
    Fetched(EmptyDict, EmptyFrame, {CacheKeyToday(symbols), CacheKeyHist(symbols)},
            <<symbols>>, {}, {})

\* The result, and what was asked of the collaborators on the way: the cache
\* keys read, the symbol lists requested of the provider, the collaborators
\* that failed, the cache keys written.
_fetch_market_data(symbols, cached_today, cached_hist, download) ==
    LET keys == {CacheKeyToday(symbols), CacheKeyHist(symbols)}
    IN  IF Len(symbols) = 0 THEN Fetched(EmptyDict, EmptyFrame, {}, <<>>, {}, {})
        ELSE IF Len(cached_today) > 0 /\ Len(cached_hist) > 0
        THEN Fetched(cached_today[1], cached_hist[1], keys, <<>>, {}, {})
        ELSE IF download.kind = "raise" \/ TodayRaises(symbols, download.hist)
        THEN Fetched(EmptyDict, EmptyFrame, keys, <<symbols>>, {"price provider"}, {})
        ELSE Fetched(TodayFromHist(symbols, download.hist), download.hist, keys,
                     <<symbols>>, {}, keys)

----------------------------------------------------------------------------
(* Per-holding details: _calculate_item_details and the collaborators it   *)
(* calls.  What a collaborator does is an input:                           *)
(*   ticker_info      [kind |-> "raise" | "ok", info |-> dict]  (.info)    *)
(*   recommendations  "raise", "none" (None or empty), "new", "old",       *)
(*                    "other" (the format of the ratings table)            *)
(*   completion       "raise" or "ok" (the chat completion call)           *)

\* lines 307-316
_fetch_fundamentals(ticker_info) ==
    IF ticker_info.kind = "ok" /\ DOMAIN ticker_info.info # {}
    THEN [sector |-> DictGet(ticker_info.info, "sector", "Unknown"),
          pe_ratio |-> DictGet(ticker_info.info, "trailingPE", PyNone)]
    ELSE EmptyDict

CompletionText == "<completion>"

ItemAdviceUnavailable == "AI recommendation unavailable."

\* lines 351-361
_generate_symbol_recommendation_gpt(completion) ==
    IF completion = "ok" THEN CompletionText ELSE ItemAdviceUnavailable

NoAnalystData == "No analyst data found."

AggregatedRatings == "Aggregated ratings over {period}: ..."

LastAnalyst == "Last analyst: {firm} -> {to_grade} [{action}] on {date_str}."

UnrecognizedFormat == "Analyst data in an unrecognized format."

\* self.logger does not exist: the handler of line 405 raises this itself
LoggerAttributeError == "'InvestmentAnalyzer' object has no attribute 'logger'"

Returned(value) == [raised |-> "", value |-> value]

Raising(exception) == [raised |-> exception, value |-> ""]

\* lines 365-407
_fetch_analyst_recommendation(recommendations) ==
    CASE recommendations = "raise" -> Raising(LoggerAttributeError)
      [] recommendations = "none" -> Returned(NoAnalystData)
      [] recommendations = "new" -> Returned(AggregatedRatings)
      [] recommendations = "old" -> Returned(LastAnalyst)
      [] OTHER -> Returned(UnrecognizedFormat)

\* lines 260-298: the detail of one holding
ItemDetail(item, today_data, fundamentals, ai_reco, analyst_rec) ==
    LET sym == Upper(item.symbol)
        current_price == DictGet(today_data, sym, Zero)
        invested == RMul(item.purchase_price, item.quantity)
        current_val == RMul(current_price, item.quantity)
        pnl == RSub(current_val, invested)
        item_roi == IF RLt(Zero, invested) THEN RMul(RDiv(pnl, invested), RatOf(100)) ELSE Zero
    IN  [symbol |-> sym,
         quantity |-> item.quantity,
         purchase_price |-> item.purchase_price,
         current_price |-> current_price,
         invested_amount |-> invested,
         current_value |-> current_val,
         pnl |-> pnl,
         item_roi_percent |-> item_roi,
         local_recommendation |-> _generate_symbol_recommendation(sym, item_roi),
         ai_recommendation |-> ai_reco,
         analyst_recommendation |-> analyst_rec,
         sector |-> DictGet(fundamentals, "sector", "Unknown"),
         pe_ratio |-> DictGet(fundamentals, "pe_ratio", PyNone)]

\* The loop of lines 259-298.  env.info gives each symbol's .info,
\* env.recommendations what its recommendations do, env.item_completion
\* what the completion call does.
\* Returns the details, or the exception that left the loop, with the
\* collaborators contacted and those that failed.
RECURSIVE ItemDetailsLoop(_, _, _, _, _, _, _)
ItemDetailsLoop(items, today_data, env, i, details, contacted, failed) ==
    IF i > Len(items)
    THEN [raised |-> "", details |-> details, contacted |-> contacted, failed |-> failed]
    ELSE LET sym == Upper(items[i].symbol)
             fundamentals == _fetch_fundamentals(env.info[sym])
             ai_reco == _generate_symbol_recommendation_gpt(env.item_completion)
             analyst == _fetch_analyst_recommendation(env.recommendations[sym])
             nowContacted == contacted \cup {"fundamentals", "item narrative", "analyst"}
             nowFailed ==
                 failed \cup (IF env.info[sym].kind = "raise" THEN {"fundamentals"} ELSE {})
                        \cup (IF env.item_completion = "raise" THEN {"item narrative"} ELSE {})
                        \cup (IF env.recommendations[sym] = "raise" THEN {"analyst"} ELSE {})
         IN  IF analyst.raised # ""
             THEN [raised |-> analyst.raised, details |-> details,
                   contacted |-> nowContacted, failed |-> nowFailed]
             ELSE ItemDetailsLoop(items, today_data, env, i + 1,
                                  Append(details,
                                         ItemDetail(items[i], today_data, fundamentals,
                                                    ai_reco, analyst.value)),
                                  nowContacted, nowFailed)

\* Mutant: a failure inside the loop is dropped and the details computed
\* until then are returned.
ItemDetailsUntilFailure(items, today_data, env) ==
    [ItemDetailsLoop(items, today_data, env, 1, <<>>, {}, {}) EXCEPT !.raised = ""]

_calculate_item_details(items, today_data, env) ==
    ItemDetailsLoop(items, today_data, env, 1, <<>>, {}, {})

----------------------------------------------------------------------------
(* analyze_portfolio, and the endpoint that serves it *)

\* float(os.getenv("RISK_FREE_RATE", " 4.54")), the service being run with
\* RISK_FREE_RATE=4 (the default rate is among RiskFreeRates)
ConfiguredRiskFreeRate == RatOf(4)

PortfolioAdviceUnavailable == "GPT portfolio advice unavailable."

\* lines 516-526
_generate_gpt_portfolio_advice(completion) ==
    IF completion = "ok" THEN CompletionText ELSE PortfolioAdviceUnavailable

\* list({item.symbol.upper() for item in portfolio.items})
UpperSymbols(items) == {Upper(items[i].symbol) : i \in 1..Len(items)}

\* The lists a set can be iterated as: Python does not fix the order.
Orderings(S) == {seq \in [1..Cardinality(S) -> S] : Range(seq) = S}

NoResponse == <<>>

\* InvestmentAnalyzer.analyze_portfolio: the response dict, or the exception
\* that left it, with what it asked of its collaborators and the number of
\* holdings it had detailed.
\* env.order is the order the symbol set is iterated in; env.cached whether
\* the cache answers both keys (with env.download's frame, fetched earlier).
analyze_portfolio(items, env) ==
    LET symbols == env.order
        cachedFrame == IF env.cached THEN <<env.download.hist>> ELSE <<>>
        cachedToday == IF env.cached THEN <<TodayFromHist(symbols, env.download.hist)>>
                       ELSE <<>>
        market == _fetch_market_data(symbols, cachedToday, cachedFrame, env.download)
        today_data == market.today_data
        historical_data == market.historical_data
        values == _calculate_values(items, today_data)
        total_investment == values[1]
        current_value == values[2]
        roi_percent == _calculate_roi(total_investment, current_value)
        volatility == _calculate_portfolio_volatility(items, historical_data)
        sharpe_ratio == _calculate_sharpe_ratio(roi_percent, volatility, ConfiguredRiskFreeRate)
        item_details == _calculate_item_details(items, today_data, env)
        sector_breakdown == _calculate_sector_breakdown(item_details.details)
        local_advice == _generate_local_advice(roi_percent, volatility, sector_breakdown)
        gpt_advice == _generate_gpt_portfolio_advice(env.portfolio_completion)
        numbers == {total_investment, current_value, roi_percent, volatility, sharpe_ratio}
        raised ==
            IF \E x \in numbers : Raised(x) THEN "arithmetic error"
            ELSE item_details.raised
        exchanged == [today_data |-> today_data,
                  historical_data |-> historical_data,
                  cache_reads |-> market.cache_reads,
                  cache_writes |-> market.cache_writes,
                  requested |-> market.requested]
    IN  IF raised # ""
        THEN [raised |-> raised, response |-> NoResponse, asked |-> exchanged,
              contacted |-> item_details.contacted,
              detailed |-> Len(item_details.details),
              failed |-> market.failed \cup item_details.failed]
        ELSE [raised |-> "",
              response |-> [holdings |-> item_details.details,
                            sector_breakdown |-> sector_breakdown,
                            total_investment |-> total_investment,
                            current_value |-> current_value,
                            roi_percent |-> roi_percent,
                            volatility |-> volatility,
                            sharpe_ratio |-> sharpe_ratio,
                            local_advice |-> local_advice,
                            gpt_advice |-> gpt_advice],
              asked |-> exchanged,
              contacted |-> item_details.contacted \cup {"portfolio narrative"},
              detailed |-> Len(item_details.details),
              failed |-> market.failed \cup item_details.failed
                         \cup (IF env.portfolio_completion = "raise"
                               THEN {"portfolio narrative"} ELSE {})]

\* JSONResponse renders with allow_nan=False: a NaN in the content is a ValueError
NotJsonCompliant == "Out of range float values are not JSON compliant"

HasNaN(content) ==
    \/ \E k \in {"total_investment", "current_value", "roi_percent", "volatility",
                 "sharpe_ratio"} : IsNaN(content[k])
    \/ \E i \in 1..Len(content.holdings) :
          \E k \in {"current_price", "invested_amount", "current_value", "pnl",
                    "item_roi_percent"} : IsNaN(content.holdings[i][k])
    \/ \E i \in 1..Len(content.sector_breakdown) : IsNaN(content.sector_breakdown[i].val)

\* main.py, POST /analyze-portfolio: 200 with the results, or 500 with str(e)
AnalyzeEndpoint(analysis) ==
    IF analysis.raised # ""
    THEN [status |-> 500, detail |-> analysis.raised, content |-> NoResponse]
    ELSE IF HasNaN(analysis.response)
    THEN [status |-> 500, detail |-> NotJsonCompliant, content |-> NoResponse]
    ELSE [status |-> 200, detail |-> "", content |-> analysis.response]

----------------------------------------------------------------------------
(* The breakdown-only endpoint: POST /portfolio-sector-breakdown *)

\* Mutant: a holding is valued at its purchase price.
BreakdownDetailAtPurchase(item, today_data, fundamentals) ==
    [symbol |-> Upper(item.symbol),
     current_value |-> RMul(item.purchase_price, item.quantity),
     sector |-> DictGet(fundamentals, "sector", "Unknown")]

\* main.py lines 143-152: what is kept of one holding
BreakdownDetail(item, today_data, fundamentals) ==
    LET sym == Upper(item.symbol)
        current_price == DictGet(today_data, sym, Zero)
        current_val == RMul(current_price, item.quantity)
    IN  [symbol |-> sym,
         current_value |-> current_val,
         sector |-> DictGet(fundamentals, "sector", "Unknown")]

\* main.py lines 129-158: the HTTP response, with the collaborators
\* contacted and the symbol lists requested of the price provider.
\* env is read as analyze_portfolio reads it.
portfolio_sector_breakdown(items, env) ==
    LET symbols == env.order
        cachedFrame == IF env.cached THEN <<env.download.hist>> ELSE <<>>
        cachedToday == IF env.cached THEN <<TodayFromHist(symbols, env.download.hist)>>
                       ELSE <<>>
        market == _fetch_market_data(symbols, cachedToday, cachedFrame, env.download)
        today_data == market.today_data
        item_details ==
            [i \in 1..Len(items) |->
                BreakdownDetail(items[i], today_data,
                                _fetch_fundamentals(env.info[Upper(items[i].symbol)]))]
        sector_breakdown == _calculate_sector_breakdown(item_details)
        contacted == IF Len(items) > 0 THEN {"fundamentals"} ELSE {}
        raises == \E i \in 1..Len(sector_breakdown) : Raised(sector_breakdown[i].val)
        nan == \E i \in 1..Len(sector_breakdown) : IsNaN(sector_breakdown[i].val)
    IN  IF raises
        THEN [status |-> 500, detail |-> "arithmetic error", content |-> NoResponse,
              contacted |-> contacted, requested |-> market.requested]
        ELSE IF nan
        THEN [status |-> 500, detail |-> NotJsonCompliant, content |-> NoResponse,
              contacted |-> contacted, requested |-> market.requested]
        ELSE [status |-> 200, detail |-> "",
              content |-> [sector_breakdown |-> sector_breakdown],
              contacted |-> contacted, requested |-> market.requested]

----------------------------------------------------------------------------
(* The calculators applied to bounded inputs.  fn is the function last     *)
(* applied, args its arguments, ret what it returned.                      *)

SeqsUpTo(S, n) == UNION {[1..k -> S] : k \in 0..n}

Rats(S) == {RatOf(n) : n \in S}

Amounts == Rats({-1, 0, 1, 2, 3, 3000, 3100}) \cup {Rat(1, 2)}

RoiSamples ==
    Rats({-100, -21, -20, -1, 0, 1, 4, 5, 6, 19, 20, 21})
        \cup {Rat(-41, 2), Rat(-1, 2), Rat(10, 3), Rat(9, 2), Rat(39, 2)}

\* 0, 0.3, 0.31, 0.5, sqrt(2)
VolatilitySamples ==
    {Zero, RealOfRat(Rat(3, 10)), RealOfRat(Rat(31, 100)), RealOfRat(Rat(1, 2)),
     SqrtOf(RatOf(2))}

\* float(os.getenv("RISK_FREE_RATE", " 4.54")), or the caller's override
RiskFreeRates == {Zero, RatOf(2), Rat(454, 100)}

Symbols == {"AAPL", "aapl", "MSFT"}

\* Holdings (PortfolioItem): symbol, quantity, purchase_price.
Item(symbol, quantity, purchase_price) ==
    [symbol |-> symbol, quantity |-> quantity, purchase_price |-> purchase_price]

SmallItems ==
    {Item(s, q, p) : s \in Symbols, q \in Rats({1, 2}), p \in Rats({0, 3})}

\* AAPL qty 10 at 150 and MSFT qty 5 at 300
ScenarioPortfolio ==
    <<Item("AAPL", RatOf(10), RatOf(150)), Item("MSFT", RatOf(5), RatOf(300))>>

ScenarioSnapshot == [s \in {"AAPL", "MSFT"} |-> IF s = "AAPL" THEN RatOf(165) ELSE RatOf(290)]

Portfolios == SeqsUpTo(SmallItems, MaxItems) \cup {ScenarioPortfolio}

Snapshots ==
    UNION {[S -> Rats({0, 2})] : S \in SUBSET {"AAPL", "MSFT"}} \cup {ScenarioSnapshot}

SectorLabels == {"Technology", "Unknown", "", PyNone}

Detail(current_value, sector) == [current_value |-> current_value, sector |-> sector]

DetailLists ==
    SeqsUpTo({Detail(v, s) : v \in Rats({-1, 0, 1}), s \in SectorLabels}, MaxDetails)

AdviceDetailLists ==
    SeqsUpTo({Detail(v, s) : v \in Rats({-1, 1, 2}), s \in {"Technology", "Healthcare"}},
             MaxDetails)

AdviceRois == {RatOf(-1), Zero, Rat(9, 2), RatOf(5), RatOf(6)}

\* 0, 0.3, 0.31
AdviceVolatilities == {Zero, RealOfRat(Rat(3, 10)), RealOfRat(Rat(31, 100))}

\* No request is being served.
Idle ==
    /\ phase = "idle"
    /\ portfolio = <<>>
    /\ results = <<>>
    /\ response = NoResponse
    /\ world = <<>>
    /\ breakdown = NoResponse

\* No request is in _fetch_market_data; the shared cache holds neither key.
\* An entry of the cache, and a value a request holds, is the number of the
\* provider download it came from; None is the absent value.
None == 0

NoRequest ==
    /\ cache = [today |-> None, hist |-> None]
    /\ pc = [r \in 1..MaxRequests |-> "idle"]
    /\ local = [r \in 1..MaxRequests |-> [today_data |-> None, historical_data |-> None]]
    /\ served = [r \in 1..MaxRequests |-> [from |-> "nothing", today_data |-> None, historical_data |-> None]]
    /\ fetches = 0

NoCall ==
    /\ fn = "none"
    /\ args = <<>>
    /\ ret = <<>>

CalcInit == NoCall /\ Idle /\ NoRequest

CallRoi ==
    \E ti \in Amounts, cv \in Amounts :
        /\ fn = "none"
        /\ fn' = "_calculate_roi"
        /\ args' = [total_investment |-> ti, current_value |-> cv]
        /\ ret' = _calculate_roi(ti, cv)
        /\ UNCHANGED <<serviceVars, cacheVars>>

CallSharpe ==
    \E roi \in RoiSamples, vol \in VolatilitySamples, rf \in RiskFreeRates :
        /\ fn = "none"
        /\ fn' = "_calculate_sharpe_ratio"
        /\ args' = [roi_percent |-> roi, volatility |-> vol, risk_free_rate |-> rf]
        /\ ret' = _calculate_sharpe_ratio(roi, vol, rf)
        /\ UNCHANGED <<serviceVars, cacheVars>>

CallSymbolRecommendation ==
    \E sym \in {"AAPL", "MSFT"}, roi \in RoiSamples :
        /\ fn = "none"
        /\ fn' = "_generate_symbol_recommendation"
        /\ args' = [symbol |-> sym, roi |-> roi]
        /\ ret' = _generate_symbol_recommendation(sym, roi)
        /\ UNCHANGED <<serviceVars, cacheVars>>

CallSectorBreakdown ==
    \E details \in DetailLists :
        /\ fn = "none"
        /\ fn' = "_calculate_sector_breakdown"
        /\ args' = [item_details |-> details]
        /\ ret' = _calculate_sector_breakdown(details)
        /\ UNCHANGED <<serviceVars, cacheVars>>

CallValues ==
    \E items \in Portfolios, td \in Snapshots :
        /\ fn = "none"
        /\ fn' = "_calculate_values"
        /\ args' = [items |-> items, today_data |-> td]
        /\ ret' = _calculate_values(items, td)
        /\ UNCHANGED <<serviceVars, cacheVars>>

CallLocalAdvice ==
    \E roi \in AdviceRois, vol \in AdviceVolatilities, details \in AdviceDetailLists :
        /\ fn = "none"
        /\ fn' = "_generate_local_advice"
        /\ args' = [roi_percent |-> roi, volatility |-> vol,
                    sector_breakdown |-> _calculate_sector_breakdown(details)]
        /\ ret' = _generate_local_advice(roi, vol, _calculate_sector_breakdown(details))
        /\ UNCHANGED <<serviceVars, cacheVars>>

\* daily closes of the provider's month, oldest first
Closes(sym) ==
    IF sym = "AAPL" THEN <<RatOf(2), RatOf(4), RatOf(3)>>
    ELSE <<RatOf(4), RatOf(2), RatOf(4)>>

NoCloses(rows) == [t \in 1..rows |-> NaN]

\* Holdings for the volatility estimator, a quantity of 0 among them.
VolatilityItems == {Item(s, q, RatOf(3)) : s \in Symbols, q \in Rats({0, 2})}

\* Histories, the degenerate ones among them: no rows, no "Close", one
\* row, columns without data, columns for some of the symbols only.
Histories ==
    {EmptyFrame, [shape |-> "noclose"]}
        \cup {[shape |-> "single", close |-> SubSeq(Closes(sym), 1, rows)] :
                 sym \in {"AAPL", "MSFT"}, rows \in 1..3}
        \cup UNION {{[shape |-> "multi",
                      close |-> [sym \in cols |->
                                    IF sym \in known THEN SubSeq(Closes(sym), 1, rows)
                                    ELSE NoCloses(rows)]] :
                        known \in SUBSET cols, rows \in 1..3} :
                    cols \in (SUBSET {"AAPL", "MSFT"}) \ {{}}}

CallVolatility ==
    \E items \in SeqsUpTo(VolatilityItems, MaxItems), hist \in Histories :
        /\ fn = "none"
        /\ fn' = "_calculate_portfolio_volatility"
        /\ args' = [items |-> items, historical_data |-> hist]
        /\ ret' = _calculate_portfolio_volatility(items, hist)
        /\ UNCHANGED <<serviceVars, cacheVars>>

\* The caller takes the result; the next call may follow.
Return ==
    /\ fn # "none"
    /\ fn' = "none"
    /\ args' = <<>>
    /\ ret' = <<>>
    /\ UNCHANGED <<serviceVars, cacheVars>>

CalcNext ==
    \/ Return
    \/ CallRoi
    \/ CallSharpe
    \/ CallSymbolRecommendation
    \/ CallSectorBreakdown
    \/ CallValues
    \/ CallLocalAdvice
    \/ CallVolatility

SpecCalc == CalcInit /\ [][CalcNext]_vars

----------------------------------------------------------------------------
(* The service: POST /analyze-portfolio served for a posted portfolio, its *)
(* collaborators behaving in any of the ways listed here.                  *)

RowChoices == {2, 3}

\* What yf.download may answer for a symbol list: an empty frame, or rows
\* in which each ticker either has its closes or (unknown ticker) has none.
Frames(symbols) ==
    IF Len(symbols) = 1
    THEN {EmptyFrame}
         \cup {[shape |-> "single", close |-> SubSeq(Closes(symbols[1]), 1, rows)] :
                  rows \in RowChoices}
    ELSE {[shape |-> "multi",
           close |-> [sym \in Range(symbols) |->
                         IF sym \in known THEN SubSeq(Closes(sym), 1, rows)
                         ELSE NoCloses(rows)]] :
              known \in SUBSET Range(symbols), rows \in RowChoices}

Downloads(symbols) ==
    {[kind |-> "raise", hist |-> EmptyFrame]}
        \cup {[kind |-> "ok", hist |-> frame] : frame \in Frames(symbols)}

\* .info of a ticker: raises, or a dict with the sector and the P/E
Infos ==
    {[kind |-> "raise", info |-> EmptyDict],
     [kind |-> "ok", info |-> [sector |-> "Technology", trailingPE |-> "28.5"]]}

RecommendationKinds == {"raise", "new"}

Completions == {"raise", "ok"}

\* The holdings that may be posted: quantity and purchase_price are floats
\* that nothing constrains, so a negative quantity is among them.
ServiceItems ==
    {Item("AAPL", RatOf(2), RatOf(3)), Item("aapl", RatOf(2), Zero),
     Item("MSFT", RatOf(2), RatOf(3)), Item("MSFT", RatOf(-2), RatOf(3))}

ServicePortfolios == SeqsUpTo(ServiceItems, MaxItems)

\* The ways the collaborators may behave while items is analysed.
Environments(items) ==
    {[order |-> order, cached |-> cached, download |-> download, info |-> info,
      recommendations |-> recommendations, item_completion |-> item_completion,
      portfolio_completion |-> portfolio_completion] :
        order \in Orderings(UpperSymbols(items)),
        cached \in BOOLEAN,
        download \in UNION {Downloads(o) : o \in Orderings(UpperSymbols(items))},
        info \in [UpperSymbols(items) -> Infos],
        recommendations \in [UpperSymbols(items) -> RecommendationKinds],
        item_completion \in Completions,
        portfolio_completion \in Completions}

Init == NoCall /\ Idle /\ NoRequest

\* analyze_portfolio_endpoint: the whole request, from the posted portfolio
\* to the HTTP response.  results is what analyze_portfolio returned or
\* raised, with what it asked of its collaborators; world is how the
\* collaborators behaved while it was served.
Analyze ==
    /\ phase = "idle"
    /\ \E items \in ServicePortfolios :
          \E env \in Environments(items) :
             /\ env.cached => env.download.kind = "ok"
             /\ portfolio' = items
             /\ results' = analyze_portfolio(items, env)
             /\ response' = AnalyzeEndpoint(results')
             /\ world' = env
    /\ phase' = "done"
    /\ UNCHANGED <<breakdown, calcVars, cacheVars>>

\* POST /portfolio-sector-breakdown with the portfolio just analyzed, the
\* collaborators answering it as they answered the analysis.
SectorBreakdown ==
    /\ phase = "done"
    /\ breakdown' = portfolio_sector_breakdown(portfolio, world)
    /\ phase' = "breakdown"
    /\ UNCHANGED <<portfolio, results, response, world, calcVars, cacheVars>>

\* The client has its response; the service waits for the next request.
Respond ==
    /\ phase \in {"done", "breakdown"}
    /\ phase' = "idle"
    /\ portfolio' = <<>>
    /\ results' = <<>>
    /\ response' = NoResponse
    /\ world' = <<>>
    /\ breakdown' = NoResponse
    /\ UNCHANGED <<calcVars, cacheVars>>

Next == Analyze \/ SectorBreakdown \/ Respond

Spec == Init /\ [][Next]_vars

----------------------------------------------------------------------------
(* The shared cache: main.py builds one RedisCache (redis_cache) and hands *)
(* it to the analyzer of every request; the endpoints are plain functions, *)
(* which the server runs on worker threads, so requests are in             *)
(* _fetch_market_data at the same time.  The requests here ask for the     *)
(* same symbol list, hence for the same two keys.  Each cache call and the *)
(* provider download is a step of its own; the n-th download of the        *)
(* provider is known by its number n.                                      *)

Requests == 1..MaxRequests

\* a request arrives and enters _fetch_market_data with a non-empty list
Enter(r) ==
    /\ pc[r] = "idle"
    /\ pc' = [pc EXCEPT ![r] = "get_json"]
    /\ local' = [local EXCEPT ![r] = [today_data |-> None, historical_data |-> None]]
    /\ served' = [served EXCEPT ![r] = [from |-> "nothing", today_data |-> None,
                                        historical_data |-> None]]
    /\ UNCHANGED <<cache, fetches, calcVars, serviceVars>>

\* today_data = self.cache.get_json(cache_key_today)
GetJson(r) ==
    /\ pc[r] = "get_json"
    /\ local' = [local EXCEPT ![r].today_data = cache.today]
    /\ pc' = [pc EXCEPT ![r] = "get_pickle"]
    /\ UNCHANGED <<cache, served, fetches, calcVars, serviceVars>>

\* historical_data = self.cache.get_pickle(cache_key_hist), and the test
\* that both were found: the cached pair is returned, or the provider is
\* asked
GetPickle(r) ==
    /\ pc[r] = "get_pickle"
    /\ local' = [local EXCEPT ![r].historical_data = cache.hist]
    /\ IF local[r].today_data # None /\ cache.hist # None
         THEN /\ served' = [served EXCEPT ![r] = [from |-> "cache",
                                                  today_data |-> local[r].today_data,
                                                  historical_data |-> cache.hist]]
              /\ pc' = [pc EXCEPT ![r] = "idle"]
         ELSE /\ pc' = [pc EXCEPT ![r] = "download"]
              /\ UNCHANGED served
    /\ UNCHANGED <<cache, fetches, calcVars, serviceVars>>

\* hist = yf.download(...) answers, and today_data is made of it
Download(r) ==
    /\ pc[r] = "download"
    /\ fetches < MaxFetches
    /\ fetches' = fetches + 1
    /\ local' = [local EXCEPT ![r] = [today_data |-> fetches + 1,
                                      historical_data |-> fetches + 1]]
    /\ pc' = [pc EXCEPT ![r] = "set_json"]
    /\ UNCHANGED <<cache, served, calcVars, serviceVars>>

\* yf.download raises: the except clause returns {}, pd.DataFrame()
DownloadRaises(r) ==
    /\ pc[r] = "download"
    /\ served' = [served EXCEPT ![r] = [from |-> "except", today_data |-> None,
                                        historical_data |-> None]]
    /\ pc' = [pc EXCEPT ![r] = "idle"]
    /\ UNCHANGED <<cache, local, fetches, calcVars, serviceVars>>

\* self.cache.set_json(cache_key_today, today_data, ttl=...)
SetJson(r) ==
    /\ pc[r] = "set_json"
    /\ cache' = [cache EXCEPT !.today = local[r].today_data]
    /\ pc' = [pc EXCEPT ![r] = "set_pickle"]
    /\ UNCHANGED <<local, served, fetches, calcVars, serviceVars>>

\* self.cache.set_pickle(cache_key_hist, hist, ttl=...); return today_data, hist
SetPickle(r) ==
    /\ pc[r] = "set_pickle"
    /\ cache' = [cache EXCEPT !.hist = local[r].historical_data]
    /\ served' = [served EXCEPT ![r] = [from |-> "provider",
                                        today_data |-> local[r].today_data,
                                        historical_data |-> local[r].historical_data]]
    /\ pc' = [pc EXCEPT ![r] = "idle"]
    /\ UNCHANGED <<local, fetches, calcVars, serviceVars>>

\* the time to live of one key runs out (setex): each key has its own
ExpireToday ==
    /\ cache.today # None
    /\ cache' = [cache EXCEPT !.today = None]
    /\ UNCHANGED <<pc, local, served, fetches, calcVars, serviceVars>>

ExpireHist ==
    /\ cache.hist # None
    /\ cache' = [cache EXCEPT !.hist = None]
    /\ UNCHANGED <<pc, local, served, fetches, calcVars, serviceVars>>

CacheInit == NoCall /\ Idle /\ NoRequest

CacheNext ==
    \/ \E r \in Requests : Enter(r)
    \/ \E r \in Requests : GetJson(r)
    \/ \E r \in Requests : GetPickle(r)
    \/ \E r \in Requests : Download(r)
    \/ \E r \in Requests : DownloadRaises(r)
    \/ \E r \in Requests : SetJson(r)
    \/ \E r \in Requests : SetPickle(r)
    \/ ExpireToday
    \/ ExpireHist

SpecCache == CacheInit /\ [][CacheNext]_vars

----------------------------------------------------------------------------
(* Properties of the calculators (checked under SpecCalc) *)

RECURSIVE SumSeq(_)
SumSeq(s) == IF s = <<>> THEN Zero ELSE RAdd(Head(s), SumSeq(Tail(s)))

\* C1: _calculate_roi returns exactly 0 for every total_investment <= 0,
\* whatever the current value, and for total_investment > 0 the value roi
\* with roi * total_investment = (current_value - total_investment) * 100;
\* no input makes it raise (divide by zero).
C1_RoiGuardedAndExact ==
    fn = "_calculate_roi" =>
        LET ti == args.total_investment
            cv == args.current_value
        IN  /\ ~Raised(ret)
            /\ RLe(ti, Zero) => ret = Zero
            /\ RLt(Zero, ti) => RMul(ret, ti) = RMul(RSub(cv, ti), RatOf(100))

\* C1 witness: a zero-cost portfolio with a positive current value got 0.
C1_ZeroCostWitness ==
    /\ fn = "_calculate_roi"
    /\ args.total_investment = Zero
    /\ RLt(Zero, args.current_value)
    /\ ret = Zero

\* C2: _calculate_sharpe_ratio returns 0 whenever volatility == 0, for every
\* ROI and risk-free rate; otherwise the value x with
\* x * volatility * 100 = roi_percent - risk_free_rate, i.e. both percents are
\* taken as decimals before they are combined.
C2_SharpeGuardedAndInDecimals ==
    fn = "_calculate_sharpe_ratio" =>
        LET roi == args.roi_percent
            vol == args.volatility
            rf == args.risk_free_rate
        IN  /\ ~Raised(ret)
            /\ vol = Zero => ret = Zero
            /\ vol # Zero =>
                 RealMul(RealMul(ret, vol), RealOfRat(RatOf(100))) = RealOfRat(RSub(roi, rf))

\* C2 witness: a non-zero ROI and risk-free rate at zero volatility gave 0.
C2_ZeroVolatilityWitness ==
    /\ fn = "_calculate_sharpe_ratio"
    /\ args.volatility = Zero
    /\ args.roi_percent = RatOf(5)
    /\ args.risk_free_rate = Rat(454, 100)
    /\ ret = Zero

TierTexts ==
    {LargeLossesText, MildLossesText, LowRoiText, DecentGainsText, StrongGainsText}

\* C3: the per-holding recommendation picks exactly one of the five tiers for
\* every roi: roi < -20 severe-loss, -20 <= roi < 0 mild-loss, 0 <= roi < 5
\* low-gain, 5 <= roi < 20 moderate-gain, roi >= 20 strong-gain.
C3_FiveTiersWithBoundaries ==
    fn = "_generate_symbol_recommendation" =>
        LET roi == args.roi
            Is(text) == ret = Tagged(args.symbol, text)
        IN  /\ Cardinality({t \in TierTexts : Is(t)}) = 1
            /\ RLt(roi, RatOf(-20)) => Is(LargeLossesText)
            /\ (RLe(RatOf(-20), roi) /\ RLt(roi, Zero)) => Is(MildLossesText)
            /\ (RLe(Zero, roi) /\ RLt(roi, RatOf(5))) => Is(LowRoiText)
            /\ (RLe(RatOf(5), roi) /\ RLt(roi, RatOf(20))) => Is(DecentGainsText)
            /\ RLe(RatOf(20), roi) => Is(StrongGainsText)

\* C3 witness: roi = -20 got the mild-loss sentence.
C3_MinusTwentyIsMildWitness ==
    /\ fn = "_generate_symbol_recommendation"
    /\ args.roi = RatOf(-20)
    /\ ret = Tagged(args.symbol, MildLossesText)

\* The label a holding detail is grouped under: a missing or empty label is "Unknown".
CanonicalSector(detail) == IF detail.sector \in {"", PyNone} THEN "Unknown" ELSE detail.sector

SectorValues(details, sec) ==
    [i \in 1..Len(details) |->
        IF CanonicalSector(details[i]) = sec THEN details[i].current_value ELSE Zero]

AllValues(details) == [i \in 1..Len(details) |-> details[i].current_value]

Vals(od) == [i \in 1..Len(od) |-> od[i].val]

\* C4: _calculate_sector_breakdown returns one entry per distinct sector label
\* (a missing or empty label counting as "Unknown"); with a grand total > 0
\* each entry is the sector's summed current_value as a percentage of the
\* total and the percentages sum to 100; with a grand total of 0 every
\* entry is 0 and nothing is raised.
C4_BreakdownIsShareOfTotal ==
    fn = "_calculate_sector_breakdown" =>
        LET details == args.item_details
            total == SumSeq(AllValues(details))
        IN  /\ Cardinality(ODKeys(ret)) = Len(ret)
            /\ ODKeys(ret) = {CanonicalSector(details[i]) : i \in 1..Len(details)}
            /\ \A i \in 1..Len(ret) : ~Raised(ret[i].val)
            /\ RLt(Zero, total) =>
                 /\ \A i \in 1..Len(ret) :
                        RMul(ret[i].val, total)
                            = RMul(SumSeq(SectorValues(details, ret[i].key)), RatOf(100))
                 /\ SumSeq(Vals(ret)) = RatOf(100)
            /\ total = Zero => \A i \in 1..Len(ret) : ret[i].val = Zero

\* C4 witness: holdings in two sectors, one of them labelled by an empty
\* label, with a positive grand total.
C4_TwoSectorsWitness ==
    /\ fn = "_calculate_sector_breakdown"
    /\ Len(ret) = 2
    /\ \E i \in 1..Len(args.item_details) : args.item_details[i].sector = ""
    /\ RLt(Zero, SumSeq(AllValues(args.item_details)))
    /\ SumSeq(Vals(ret)) = RatOf(100)

\* C6: _calculate_values returns total_investment = sum of purchase_price *
\* quantity and current_value = sum of price(upper-cased symbol, default 0) *
\* quantity over the holdings, each holding counted, a symbol absent from the
\* snapshot counting 0 without raising; for AAPL 10 at 150 and MSFT 5 at 300
\* with snapshot {AAPL: 165, MSFT: 290} that is 3000, 3100 and an ROI of
\* 100/30 percent.
C6_ValuesAreSumsOverHoldings ==
    fn = "_calculate_values" =>
        LET items == args.items
            td == args.today_data
            Price(item) == IF Upper(item.symbol) \in DOMAIN td THEN td[Upper(item.symbol)]
                           ELSE Zero
            invested == [i \in 1..Len(items) |-> RMul(items[i].purchase_price, items[i].quantity)]
            worth == [i \in 1..Len(items) |-> RMul(Price(items[i]), items[i].quantity)]
        IN  /\ ~Raised(ret[1]) /\ ~Raised(ret[2])
            /\ ret[1] = SumSeq(invested)
            /\ ret[2] = SumSeq(worth)
            /\ (items = ScenarioPortfolio /\ td = ScenarioSnapshot) =>
                 /\ ret = <<RatOf(3000), RatOf(3100)>>
                 /\ RMul(_calculate_roi(ret[1], ret[2]), RatOf(30)) = RatOf(100)

\* C6 witness: two lower-case holdings of one symbol priced by the snapshot's
\* upper-case entry, both counted.
C6_SharedSymbolWitness ==
    /\ fn = "_calculate_values"
    /\ Len(args.items) = 2
    /\ \A i \in 1..2 : args.items[i].symbol = "aapl" /\ args.items[i].quantity = RatOf(2)
    /\ DOMAIN args.today_data = {"AAPL"}
    /\ args.today_data["AAPL"] = RatOf(2)
    /\ ret[2] = RatOf(8)

OverFifty(bd) == {i \in 1..Len(bd) : RLt(RatOf(50), bd[i].val)}

\* C10: the local advice is, in this order, exactly one overall-ROI sentence
\* (negative for roi < 0, modest for 0 <= roi < 5, solid for roi >= 5), one
\* concentration warning for each sector strictly above 50 percent, and one
\* volatility warning only if volatility is strictly above 0.3; it is never
\* empty, and the "no specific advice" sentence stands exactly when none of
\* these sentences applies.
C10_LocalAdviceComposition ==
    fn = "_generate_local_advice" =>
        LET roi == args.roi_percent
            bd == args.sector_breakdown
            nConc == Cardinality(OverFifty(bd))
            nVol == IF RLt(RealOfRat(Rat(3, 10)), args.volatility) THEN 1 ELSE 0
            applying == 1 + nConc + nVol
        IN  /\ Len(ret) >= 1
            /\ (ret = <<Plain(NoAdviceText)>>) <=> (applying = 0)
            /\ Len(ret) = applying
            /\ RLt(roi, Zero) => ret[1] = Plain(NegativeRoiText)
            /\ (RLe(Zero, roi) /\ RLt(roi, RatOf(5))) => ret[1] = Plain(ModestRoiText)
            /\ RLe(RatOf(5), roi) => ret[1] = Plain(SolidRoiText)
            /\ \A j \in 2..(1 + nConc) : ret[j].text = ConcentrationText
            /\ {ret[j].sec : j \in 2..(1 + nConc)} = {bd[i].key : i \in OverFifty(bd)}
            /\ nVol = 1 => ret[Len(ret)].text = VolatilityText

\* C10 witness: a sector at exactly 50 percent and a volatility of exactly
\* 0.3 drew no warning: the advice is the ROI sentence alone.
C10_BoundariesDrawNoWarningWitness ==
    /\ fn = "_generate_local_advice"
    /\ \E i \in 1..Len(args.sector_breakdown) : args.sector_breakdown[i].val = RatOf(50)
    /\ args.volatility = RealOfRat(Rat(3, 10))
    /\ Len(ret) = 1

----------------------------------------------------------------------------
(* Properties of the service (checked under Spec) *)

Returned200 == phase = "done" /\ results.raised = ""

HoldingSectors(holdings) ==
    {IF Falsy(holdings[i].sector) THEN "Unknown" ELSE holdings[i].sector :
        i \in 1..Len(holdings)}

BreakdownKeys(sector_breakdown) ==
    {sector_breakdown[i].key : i \in 1..Len(sector_breakdown)}

\* C5 as stated: whenever the total current value of the analysed portfolio
\* is not > 0, the sector breakdown has no entries at all.
C5_NoEntriesWithoutValue ==
    (Returned200 /\ ~RLt(Zero, results.response.current_value)) =>
        results.response.sector_breakdown = <<>>

\* C5, amended: when the total current value is not > 0, the sector
\* breakdown still has one entry per sector of the holdings, each of them
\* 0.0; it has no entries only for a portfolio without holdings.
C5_ZeroEntriesWithoutValue ==
    (Returned200 /\ ~RLt(Zero, results.response.current_value)) =>
        LET bd == results.response.sector_breakdown
        IN  /\ BreakdownKeys(bd) = HoldingSectors(results.response.holdings)
            /\ Len(bd) = Cardinality(BreakdownKeys(bd))
            /\ \A i \in 1..Len(bd) : bd[i].val = Zero
            /\ (bd = <<>>) <=> (portfolio = <<>>)

\* C5 witness: a portfolio with holdings was analysed, every price being
\* the 0.0 sentinel, and its breakdown has entries.
C5_ZeroValuedHoldingsWitness ==
    /\ Returned200
    /\ portfolio # <<>>
    /\ results.response.current_value = Zero
    /\ \A i \in 1..Len(results.response.holdings) :
          results.response.holdings[i].current_price = Zero
    /\ Len(results.response.sector_breakdown) > 0

\* C7: whichever collaborators fail while a portfolio is analysed, the
\* failure is caught and replaced by the fallback: analyze_portfolio
\* returns a result and raises nothing to its caller.
C7_CollaboratorFailuresAreCaught ==
    (phase = "done" /\ results.failed # {}) =>
        /\ results.raised = ""
        /\ "price provider" \in results.failed =>
              /\ DOMAIN results.asked.today_data = {}
              /\ results.asked.historical_data = EmptyFrame
        /\ "portfolio narrative" \in results.failed =>
              results.response.gpt_advice = PortfolioAdviceUnavailable
        /\ "item narrative" \in results.failed =>
              \A i \in 1..Len(results.response.holdings) :
                 results.response.holdings[i].ai_recommendation = ItemAdviceUnavailable

\* C8: when the price provider yields an empty snapshot and an empty
\* history for a portfolio with holdings, analyze_portfolio raises nothing,
\* every holding's current_value and the total are 0, every holding's pnl
\* is minus its invested amount, and the ROI is -100 if anything was invested.
C8_EmptySnapshotIsTotalLoss ==
    (/\ phase = "done"
     /\ portfolio # <<>>
     /\ DOMAIN results.asked.today_data = {}
     /\ results.asked.historical_data = EmptyFrame) =>
        /\ results.raised = ""
        /\ LET r == results.response
           IN  /\ Len(r.holdings) = Len(portfolio)
               /\ \A i \in 1..Len(r.holdings) :
                     /\ r.holdings[i].current_value = Zero
                     /\ r.holdings[i].pnl = RSub(Zero, r.holdings[i].invested_amount)
               /\ r.current_value = Zero
               /\ RLt(Zero, r.total_investment) => r.roi_percent = RatOf(-100)

\* C9: analysing the portfolio without holdings reads no cache key and
\* requests nothing of the price provider, and returns zero for the total
\* investment, the current value, the ROI, the volatility and the Sharpe
\* ratio, with no holdings and no sector breakdown entries.
C9_EmptyPortfolioIsAllZero ==
    (phase = "done" /\ portfolio = <<>>) =>
        /\ results.raised = ""
        /\ results.asked.cache_reads = {}
        /\ results.asked.cache_writes = {}
        /\ results.asked.requested = <<>>
        /\ LET r == results.response
           IN  /\ r.total_investment = Zero
               /\ r.current_value = Zero
               /\ r.roi_percent = Zero
               /\ r.volatility = Zero
               /\ r.sharpe_ratio = Zero
               /\ r.holdings = <<>>
               /\ r.sector_breakdown = <<>>

\* C9 witness: the portfolio without holdings was analysed and answered.
C9_EmptyPortfolioAnsweredWitness ==
    /\ phase = "done"
    /\ portfolio = <<>>
    /\ response.status = 200
    /\ results.asked.requested = <<>>

AllInTechnology ==
    /\ Returned200
    /\ portfolio # <<>>
    /\ \A i \in 1..Len(results.response.holdings) :
          results.response.holdings[i].sector = "Technology"

TechnologyAlone == <<[key |-> "Technology", val |-> RatOf(100)]>>

WarnsOfConcentrationIn(local_advice, sec) ==
    \E i \in 1..Len(local_advice) :
        local_advice[i].text = ConcentrationText /\ local_advice[i].sec = sec

\* C11 as stated: every portfolio with holdings that are all classified as
\* "Technology" gets the breakdown {"Technology": 100.0} and a concentration
\* warning for Technology in its local advice.
C11_SingleSectorIsHundred ==
    AllInTechnology =>
        /\ results.response.sector_breakdown = TechnologyAlone
        /\ WarnsOfConcentrationIn(results.response.local_advice, "Technology")

\* C11, amended: the same, for the portfolios whose total current value is
\* > 0; with a total that is not > 0 the breakdown is {"Technology": 0.0}
\* and no concentration warning is given.
C11_SingleSectorWithValueIsHundred ==
    AllInTechnology =>
        IF RLt(Zero, results.response.current_value)
        THEN /\ results.response.sector_breakdown = TechnologyAlone
             /\ WarnsOfConcentrationIn(results.response.local_advice, "Technology")
        ELSE /\ results.response.sector_breakdown = <<[key |-> "Technology", val |-> Zero]>>
             /\ ~WarnsOfConcentrationIn(results.response.local_advice, "Technology")

\* C11 witness: two holdings of different symbols, both Technology, with a
\* positive total value, were analysed.
C11_TwoTechnologyHoldingsWitness ==
    /\ AllInTechnology
    /\ Len(portfolio) = 2
    /\ results.response.holdings[1].symbol # results.response.holdings[2].symbol
    /\ RLt(Zero, results.response.holdings[1].current_value)
    /\ RLt(Zero, results.response.holdings[2].current_value)
    /\ results.response.sector_breakdown = TechnologyAlone

\* sorted(S), for the symbols of the model
SortedSymbols(S) == SelectSeq(<<"AAPL", "MSFT">>, LAMBDA sym : sym \in S)

\* C12: the cache keys of a request are made of the upper-cased symbols of
\* its holdings in sorted order, so requests with the same set of upper-cased
\* symbols read (and write) the same pair of keys.
C12_CacheKeysOfSortedSymbols ==
    (phase = "done" /\ portfolio # <<>>) =>
        LET sorted == SortedSymbols(UpperSymbols(portfolio))
            keys == {CacheKeyToday(sorted), CacheKeyHist(sorted)}
        IN  /\ results.asked.cache_reads = keys
            /\ results.asked.cache_writes \subseteq keys

----------------------------------------------------------------------------
(* Properties of the volatility estimator (checked under SpecCalc) *)

\* the columns of the close table that have data
ColumnsWithData(items, hist) ==
    IF hist.shape \in {"empty", "noclose"} THEN {}
    ELSE DOMAIN DropEmptyColumns(CloseTable(items, hist))

\* the number of rows of the history
RowsOf(hist) ==
    IF hist.shape \in {"empty", "noclose"} THEN 0
    ELSE IF hist.shape = "single" THEN Len(hist.close)
    ELSE Len(hist.close[CHOOSE c \in DOMAIN hist.close : TRUE])

\* last close times quantity, 0 for a symbol without a column with data
PositionValue(item, items, hist) ==
    LET up == Upper(item.symbol)
    IN  IF up \in ColumnsWithData(items, hist)
        THEN RMul(Last(CloseTable(items, hist)[up]), item.quantity)
        ELSE Zero

TotalPositionValue(items, hist) ==
    SumSeq([i \in 1..Len(items) |-> PositionValue(items[i], items, hist)])

\* C13: _calculate_portfolio_volatility never raises, and it returns exactly
\* 0.0 when the history is empty, has no close table, has no column with
\* data, has fewer than two rows, or when the total latest position value
\* is 0.
C13_DegenerateHistoryGivesZero ==
    fn = "_calculate_portfolio_volatility" =>
        LET items == args.items
            hist == args.historical_data
        IN  /\ ~Raised(ret)
            /\ (\/ hist.shape \in {"empty", "noclose"}
                \/ ColumnsWithData(items, hist) = {}
                \/ RowsOf(hist) < 2
                \/ TotalPositionValue(items, hist) = Zero) => ret = Zero

\* the weights the estimator gives the columns with data
WeightsUsed(items, hist) == Weights(items, DropEmptyColumns(CloseTable(items, hist)))

\* the summed latest position value of the holdings of one symbol
SymbolPositionValue(sym, items, hist) ==
    SumSeq([i \in 1..Len(items) |->
               IF Upper(items[i].symbol) = sym THEN PositionValue(items[i], items, hist)
               ELSE Zero])

\* C18: when the total latest position value is > 0 and every holding's
\* symbol has a price column, the weight of each symbol is the summed
\* position value of all its holdings over the total, and the weights sum
\* to 1, also when several holdings share a symbol.
C18_WeightsAreSharesOfTotal ==
    (/\ fn = "_calculate_portfolio_volatility"
     /\ RowsOf(args.historical_data) >= 2
     /\ UpperSymbols(args.items) \subseteq ColumnsWithData(args.items, args.historical_data)
     /\ RLt(Zero, TotalPositionValue(args.items, args.historical_data))) =>
        LET items == args.items
            hist == args.historical_data
            w == WeightsUsed(items, hist)
        IN  /\ \A sym \in DOMAIN w :
                  w[sym] = RDiv(SymbolPositionValue(sym, items, hist),
                                TotalPositionValue(items, hist))
            /\ SumSeq([i \in 1..Cardinality(DOMAIN w) |-> w[SetToSeq(DOMAIN w)[i]]])
                  = RatOf(1)

\* the sample variance (n - 1 in the divisor) of a series of returns,
\* undefined (NaN) for fewer than two returns
SampleVariance(returns) ==
    LET n == Len(returns)
        mean == RDiv(SumSeq(returns), RatOf(n))
        squares == [t \in 1..n |-> RMul(RSub(returns[t], mean), RSub(returns[t], mean))]
    IN  IF n < 2 THEN NaN ELSE RDiv(SumSeq(squares), RatOf(n - 1))

\* C14: for holdings (of positive quantity) that all refer to one symbol
\* with at least two price points, the squared volatility is 252 times the
\* sample variance of the symbol's daily simple returns.
C14_SingleSymbolIsOwnDeviation ==
    (/\ fn = "_calculate_portfolio_volatility"
     /\ Cardinality(UpperSymbols(args.items)) = 1
     /\ \A i \in 1..Len(args.items) : RLt(Zero, args.items[i].quantity)
     /\ RowsOf(args.historical_data) >= 2
     /\ UpperSymbols(args.items) \subseteq ColumnsWithData(args.items, args.historical_data)) =>
        LET sym == CHOOSE sym \in UpperSymbols(args.items) : TRUE
            closes == CloseTable(args.items, args.historical_data)[sym]
        IN  ret = RMul(SampleVariance(PctChange(closes)), RatOf(252))

----------------------------------------------------------------------------
(* Further properties of the service (checked under Spec) *)

MetricsFields ==
    {"holdings", "sector_breakdown", "total_investment", "current_value", "roi_percent",
     "volatility", "sharpe_ratio", "local_advice", "gpt_advice"}

DetailFields ==
    {"symbol", "quantity", "purchase_price", "current_price", "invested_amount",
     "current_value", "pnl", "item_roi_percent", "local_recommendation",
     "ai_recommendation", "analyst_recommendation", "sector", "pe_ratio"}

FullyPopulated(content, items) ==
    /\ DOMAIN content = MetricsFields
    /\ Len(content.holdings) = Len(items)
    /\ \A i \in 1..Len(items) :
          /\ DOMAIN content.holdings[i] = DetailFields
          /\ content.holdings[i].symbol = Upper(items[i].symbol)
          /\ content.holdings[i].quantity = items[i].quantity
          /\ content.holdings[i].purchase_price = items[i].purchase_price
    /\ Len(content.local_advice) > 0
    /\ content.gpt_advice # ""

\* C15: a request to analyse has exactly two outcomes: a 200 whose content
\* has every metric, one fully populated detail per holding, the breakdown
\* and both advice texts; or a 500 with one error text and no content.
\* Nothing partial is ever answered.
C15_FullResultOrSingleError ==
    phase = "done" =>
        IF response.status = 200
        THEN /\ results.raised = ""
             /\ response.detail = ""
             /\ FullyPopulated(response.content, portfolio)
        ELSE /\ response.status = 500
             /\ response.detail # ""
             /\ response.content = NoResponse

\* C15 witness: the first of two holdings was detailed, the second could
\* not be: the answer is the error alone.
C15_ErrorAfterFirstHoldingWitness ==
    /\ phase = "done"
    /\ Len(portfolio) = 2
    /\ results.raised # ""
    /\ results.detailed = 1
    /\ response.status = 500
    /\ response.content = NoResponse

\* a holding no portfolio can have: a negative quantity
Malformed(item) == RLt(item.quantity, Zero)

\* C16: when a malformed holding (a negative quantity) is among those
\* posted, the analysis fails with an error that names the input; it never
\* completes and returns metrics computed from that holding.
C16_MalformedHoldingIsRefused ==
    (phase = "done" /\ \E i \in 1..Len(portfolio) : Malformed(portfolio[i])) =>
        /\ response.status = 500
        /\ response.detail \notin {"", LoggerAttributeError, NotJsonCompliant}

\* the ticker a symbol of the model names, whatever its letter case
Ticker(sym) == IF sym \in {"AAPL", "aapl", "Aapl"} THEN "AAPL" ELSE "MSFT"

Tickers(items) == {Ticker(items[i].symbol) : i \in 1..Len(items)}

\* the same holdings, posted in upper case
UpperCased(items) ==
    [i \in 1..Len(items) |->
        Item(Ticker(items[i].symbol), items[i].quantity, items[i].purchase_price)]

\* C17: the symbols asked of the price provider are the unique upper-cased
\* symbols of the holdings, and the snapshot, the valuation and every
\* holding's detail are read under the upper-cased symbol: they depend on
\* the ticker alone, not on the letter case it was posted in.
C17_LookupsByUpperCasedSymbol ==
    phase = "done" =>
        LET req == results.asked.requested
            td == results.asked.today_data
        IN  /\ \A r \in 1..Len(req) :
                  /\ Range(req[r]) = Tickers(portfolio)
                  /\ Len(req[r]) = Cardinality(Tickers(portfolio))
            /\ DOMAIN td \subseteq Tickers(portfolio)
            /\ results.raised = "" =>
                  LET r == results.response
                      price(i) == DictGet(td, Ticker(portfolio[i].symbol), Zero)
                  IN  /\ \A i \in 1..Len(portfolio) :
                            /\ r.holdings[i].symbol = Ticker(portfolio[i].symbol)
                            /\ r.holdings[i].current_price = price(i)
                            /\ r.holdings[i].current_value =
                                  RMul(price(i), portfolio[i].quantity)
                      /\ r.current_value =
                            SumSeq([i \in 1..Len(portfolio) |->
                                       RMul(price(i), portfolio[i].quantity)])
                      /\ r.roi_percent = _calculate_roi(r.total_investment, r.current_value)
                      /\ <<r.total_investment, r.current_value>> =
                            _calculate_values(UpperCased(portfolio), td)
                      /\ r.volatility =
                            _calculate_portfolio_volatility(UpperCased(portfolio),
                                                            results.asked.historical_data)

\* C17 witness: "AAPL" and "aapl" were posted together; the provider was
\* asked for AAPL once and both holdings are valued at its price.
C17_MixedCaseWitness ==
    /\ Returned200
    /\ Len(portfolio) = 2
    /\ portfolio[1].symbol = "AAPL"
    /\ portfolio[2].symbol = "aapl"
    /\ results.asked.requested = <<(<<"AAPL">>)>>
    /\ results.response.holdings[2].symbol = "AAPL"
    /\ RLt(Zero, results.response.holdings[2].current_price)
    /\ results.response.holdings[1].current_price = results.response.holdings[2].current_price

----------------------------------------------------------------------------
(* Properties of the shared cache (checked under SpecCache) *)

\* C19: a request served from the cache (both entries found) holds a
\* snapshot and a history written by one and the same provider download,
\* whatever the interleaving of the other requests' reads and writes and of
\* the expiry of the keys.
C19_CachedPairFromOneFetch ==
    \A r \in Requests :
        served[r].from = "cache" =>
            served[r].today_data = served[r].historical_data

----------------------------------------------------------------------------
(* Properties of the breakdown-only endpoint (checked under Spec) *)

NarrativeAdvisors == {"item narrative", "portfolio narrative"}

\* C20: for the same portfolio and the same answers of the price provider
\* and of the sector classifier, the breakdown-only endpoint returns exactly
\* the sector_breakdown the full analysis returns, and contacts no narrative
\* advisor on the way (the full analysis contacts one).
C20_BreakdownOnlyMatchesAnalysis ==
    /\ phase = "breakdown" =>
          breakdown.contacted \cap NarrativeAdvisors = {}
    /\ (phase = "breakdown" /\ response.status = 200) =>
          /\ breakdown.status = 200
          /\ DOMAIN breakdown.content = {"sector_breakdown"}
          /\ breakdown.content.sector_breakdown = response.content.sector_breakdown
          /\ results.contacted \cap NarrativeAdvisors # {}

\* both endpoints have answered for two holdings in two sectors, one of
\* them bought at a price other than today's
C20_TwoSectorsWitness ==
    /\ phase = "breakdown"
    /\ response.status = 200
    /\ breakdown.status = 200
    /\ Len(portfolio) = 2
    /\ Len(breakdown.content.sector_breakdown) = 2
    /\ \E i \in 1..2 :
          response.content.holdings[i].current_price # portfolio[i].purchase_price

====
